---- MODULE Spec2Model ----
(***************************************************************************)
(* A model of generate_nametags.py: the line-fit engine                    *)
(* (find_font_size_for_line, try_two_line_split, layout_name_lines), the   *)
(* roster loader (read_full_names_from_csv, load_preferred_names_csv), the *)
(* panel renderer's footer and anti-overlap steps (draw_nametag,           *)
(* _draw_panel_content_at_origin), the tent card's three panels            *)
(* (draw_tent_card) and the run of main / generate_pdf.                    *)
(*                                                                         *)
(* Texts are sequences of one-character strings.  Lengths are in           *)
(* millipoints (1 pt = 1000), so that reportlab's                          *)
(* stringWidth = (sum of glyph widths) * size / 1000 is an integer.        *)
(***************************************************************************)
EXTENDS Integers, Sequences, FiniteSets, TLC

VARIABLES
    fit_args,      \* the arguments of one call of layout_name_lines
    fit_result,    \* what the call returned (NotCalled before it)
    rd_pc,         \* read_full_names_from_csv: "open", "rows", "returned", "ValueError"
    rd_fieldnames, \* reader.fieldnames of the roster CSV
    rd_fields,     \* the detected full_name_field and email_field
    rd_preferred,  \* preferred_by_netid
    rd_names,      \* the list names built so far
    args,          \* main: the parsed command line and the files it names
    pc,            \* main: the position of the run
    preferred_map, \* main: preferred_map
    names,         \* main: names
    grid,          \* main: the rows and cols passed to generate_pdf
    idx,           \* generate_pdf: the index of the next name to draw
    pages,         \* the canvas: the pages ended so far, each the set of names on it
    cur_page,      \* the canvas: the names drawn on the page not yet ended
    breaks,        \* the indexes before which the loop called pdf.showPage()
    placements,    \* where each name was drawn
    log,           \* the file-system and canvas calls of the run, in order
    exit_status,   \* the status the process ended with (-1 while it runs)
    panel_args,    \* the panel size, name and footer of one panel drawn
    panel_drawn    \* what was drawn in it (NotDrawn before)

fitVars == <<fit_args, fit_result>>

rdVars == <<rd_pc, rd_fieldnames, rd_fields, rd_preferred, rd_names>>

mainVars == <<args, pc, preferred_map, names, grid, idx, pages, cur_page, breaks,
              placements, log, exit_status>>

panelVars == <<panel_args, panel_drawn>>

vars == <<fit_args, fit_result, rd_pc, rd_fieldnames, rd_fields, rd_preferred, rd_names,
          args, pc, preferred_map, names, grid, idx, pages, cur_page, breaks,
          placements, log, exit_status, panel_args, panel_drawn>>

---------------------------------------------------------------------------
(* Bounds of the model *)

MaxLen == 5          \* longest name text, in characters
MaxWidthSteps == 8   \* widest max_width, in steps of 300 millipoints
MaxFontSize == 3     \* largest max_size of the line-fit runs
MaxCell == 4         \* longest CSV cell of the roster-loader runs, in characters
MaxRosterRows == 2   \* most rows read in a roster-loader run
MaxNames == 5        \* most rows of the roster files of the runs of main
MaxGrid == 3         \* largest --rows / --cols of the runs of main
MaxPanelNameLen == 3      \* longest name of the panel runs, in characters
MaxFooterLen == 3         \* longest footer of the panel runs, in characters
MaxPanelWidthSteps == 4   \* widest panel, in steps of 25 pt
MaxPanelHeightSteps == 5  \* tallest panel, in steps of 20 pt
MaxFooterWidthSteps == 14 \* widest panel of the footer runs, in steps of 2.5 pt from 50 pt

---------------------------------------------------------------------------
(* Texts *)

SeqsUpTo(S, n) == UNION {[1..k -> S] : k \in 0..n}

IsSpace(c) == c \in {" ", "\t"}

Max2(a, b) == IF a >= b THEN a ELSE b

\* str.split(): the maximal runs of non-whitespace characters, in order.
RECURSIVE split_from(_, _, _)
split_from(text, i, cur) ==
    IF i > Len(text)
    THEN (IF cur = <<>> THEN <<>> ELSE <<cur>>)
    ELSE IF IsSpace(text[i])
         THEN (IF cur = <<>> THEN <<>> ELSE <<cur>>) \o split_from(text, i + 1, <<>>)
         ELSE split_from(text, i + 1, Append(cur, text[i]))

split(text) == split_from(text, 1, <<>>)

\* " ".join(words[a-1:b]) for 1 <= a <= b <= Len(words)
RECURSIVE join(_, _, _)
join(words, a, b) ==
    IF a > b THEN <<>>
    ELSE IF a = b THEN words[a]
    ELSE words[a] \o <<" ">> \o join(words, a + 1, b)

---------------------------------------------------------------------------
(* Text measurer *)

\* Glyph widths of the two standard faces, in 1/1000 of the font size.
GlyphWidth(font_name, c) ==
    IF font_name = "Helvetica-Bold"
    THEN CASE c = "i" -> 278 [] c = "W" -> 944 [] c = "a" -> 556
           [] c = "\"" -> 474 [] OTHER -> 278
    ELSE CASE c = "i" -> 222 [] c = "W" -> 944 [] c = "a" -> 556
           [] c = "\"" -> 355 [] c = "F" -> 611 [] c = "G" -> 778
           [] c = "l" -> 222 [] c \in {"o", "d", "u", "e", "p"} -> 556
           [] OTHER -> 278

RECURSIVE GlyphSum(_, _)
GlyphSum(text, font_name) ==
    IF text = <<>> THEN 0
    ELSE GlyphWidth(font_name, Head(text)) + GlyphSum(Tail(text), font_name)

\* pdf.stringWidth(text, font_name, font_size), in millipoints
measure_text_width(text, font_name, font_size) ==
    GlyphSum(text, font_name) * font_size

---------------------------------------------------------------------------
(* Line-fit engine *)

\* for size in range(max_size, min_size - 1, -1): first size that fits
RECURSIVE scan_sizes(_, _, _, _, _)
scan_sizes(text, font_name, max_width, size, min_size) ==
    IF size < min_size THEN min_size
    ELSE IF measure_text_width(text, font_name, size) <= max_width THEN size
    ELSE scan_sizes(text, font_name, max_width, size - 1, min_size)

scan_sizes_upward(text, font_name, max_width, max_size, min_size) ==
    LET fits == {s \in min_size..max_size :
                    measure_text_width(text, font_name, s) <= max_width}
    IN IF fits = {} THEN min_size
       ELSE CHOOSE s \in fits : \A t \in fits : s <= t

find_font_size_for_line(text, font_name, max_width, max_size, min_size) ==
    scan_sizes(text, font_name, max_width, max_size, min_size)

\* try_two_line_split returns None, modelled as NoSplit, or (lines, size).
NoSplit == [lines |-> <<>>, size |-> 0]

\* Variants of the loop below: ties go to the last split; line 2 is not measured
RECURSIVE split_loop_last_tie(_, _, _, _, _, _, _)
split_loop_last_tie(words, font_name, target_size, max_width, i, best_split, best_max) ==
    IF i >= Len(words) THEN best_split
    ELSE LET line1 == join(words, 1, i)
             line2 == join(words, i + 1, Len(words))
             w1 == measure_text_width(line1, font_name, target_size)
             w2 == measure_text_width(line2, font_name, target_size)
             maxw == Max2(w1, w2)
         IN IF w1 <= max_width /\ w2 <= max_width
               /\ (best_max = -1 \/ maxw <= best_max)
            THEN split_loop_last_tie(words, font_name, target_size, max_width, i + 1,
                            [lines |-> <<line1, line2>>, size |-> target_size], maxw)
            ELSE split_loop_last_tie(words, font_name, target_size, max_width, i + 1,
                            best_split, best_max)

RECURSIVE split_loop_first_line_only(_, _, _, _, _, _, _)
split_loop_first_line_only(words, font_name, target_size, max_width, i, best_split, best_max) ==
    IF i >= Len(words) THEN best_split
    ELSE LET line1 == join(words, 1, i)
             line2 == join(words, i + 1, Len(words))
             w1 == measure_text_width(line1, font_name, target_size)
             w2 == measure_text_width(line2, font_name, target_size)
             maxw == Max2(w1, w2)
         IN IF w1 <= max_width
               /\ (best_max = -1 \/ maxw < best_max)
            THEN split_loop_first_line_only(words, font_name, target_size, max_width, i + 1,
                            [lines |-> <<line1, line2>>, size |-> target_size], maxw)
            ELSE split_loop_first_line_only(words, font_name, target_size, max_width, i + 1,
                            best_split, best_max)

\* The loop over the break points i .. len(words)-1, carrying best_split and
\* best_max_line_width (-1 stands for float("inf")).
RECURSIVE split_loop(_, _, _, _, _, _, _)
split_loop(words, font_name, target_size, max_width, i, best_split, best_max) ==
    IF i >= Len(words) THEN best_split
    ELSE LET line1 == join(words, 1, i)
             line2 == join(words, i + 1, Len(words))
             w1 == measure_text_width(line1, font_name, target_size)
             w2 == measure_text_width(line2, font_name, target_size)
             maxw == Max2(w1, w2)
         IN IF w1 <= max_width /\ w2 <= max_width
               /\ (best_max = -1 \/ maxw < best_max)
            THEN split_loop(words, font_name, target_size, max_width, i + 1,
                            [lines |-> <<line1, line2>>, size |-> target_size], maxw)
            ELSE split_loop(words, font_name, target_size, max_width, i + 1,
                            best_split, best_max)

try_two_line_split(text, font_name, target_size, max_width) ==
    LET words == split(text)
    IN IF Len(words) <= 1 THEN NoSplit
       ELSE split_loop(words, font_name, target_size, max_width, 1, NoSplit, -1)

\* for candidate_size in range(max_size, min_size - 1, -1): first size with a split
RECURSIVE two_line_scan(_, _, _, _, _)
two_line_scan(text, font_name, max_width, candidate_size, min_size) ==
    IF candidate_size < min_size
    THEN [lines |-> <<text>>, size |-> min_size]
    ELSE LET s == try_two_line_split(text, font_name, candidate_size, max_width)
         IN IF s # NoSplit THEN s
            ELSE two_line_scan(text, font_name, max_width, candidate_size - 1, min_size)

layout_name_lines(text, font_name, max_width, max_size, min_size) ==
    LET single_line_size ==
            find_font_size_for_line(text, font_name, max_width, max_size, min_size)
    IN IF measure_text_width(text, font_name, single_line_size) <= max_width
       THEN [lines |-> <<text>>, size |-> single_line_size]
       ELSE two_line_scan(text, font_name, max_width, max_size, min_size)

---------------------------------------------------------------------------
(* Roster loader *)

Whitespace == {" ", "\t"}

RECURSIVE lstrip(_, _)
lstrip(s, cs) == IF s # <<>> /\ Head(s) \in cs THEN lstrip(Tail(s), cs) ELSE s

RECURSIVE rstrip(_, _)
rstrip(s, cs) ==
    IF s # <<>> /\ s[Len(s)] \in cs THEN rstrip(SubSeq(s, 1, Len(s) - 1), cs) ELSE s

\* str.strip()
strip(s) == rstrip(lstrip(s, Whitespace), Whitespace)

\* str.strip('"')
strip_quotes(s) == rstrip(lstrip(s, {"\""}), {"\""})

\* re.sub(r"\s+", " ", s)
RECURSIVE collapse_whitespace(_)
collapse_whitespace(s) ==
    IF s = <<>> THEN <<>>
    ELSE IF IsSpace(Head(s))
         THEN <<" ">> \o collapse_whitespace(lstrip(Tail(s), Whitespace))
         ELSE <<Head(s)>> \o collapse_whitespace(Tail(s))

\* needle in haystack
Contains(needle, haystack) ==
    \E i \in 0..(Len(haystack) - Len(needle)) :
        SubSeq(haystack, i + 1, i + Len(needle)) = needle

\* str.lower() on the letters the modelled headers use
Lower(c) ==
    CASE c = "F" -> "f" [] c = "L" -> "l" [] c = "E" -> "e" [] c = "N" -> "n"
      [] c = "S" -> "s" [] OTHER -> c

LowerAlnum ==
    {"a", "b", "c", "d", "e", "f", "g", "h", "i", "j", "k", "l", "m", "n", "o", "p",
     "q", "r", "s", "t", "u", "v", "w", "x", "y", "z",
     "0", "1", "2", "3", "4", "5", "6", "7", "8", "9"}

\* re.sub(r"[^a-z0-9]", "", header.strip().lower())
RECURSIVE keep_alnum_lower(_)
keep_alnum_lower(s) ==
    IF s = <<>> THEN <<>>
    ELSE IF Lower(Head(s)) \in LowerAlnum
         THEN <<Lower(Head(s))>> \o keep_alnum_lower(Tail(s))
         ELSE keep_alnum_lower(Tail(s))

normalize_header(header) == keep_alnum_lower(strip(header))

\* Python's None for an Optional[str], and an empty dict / None for the mapping
None == <<>>

candidate_keys ==
    << <<"f", "u", "l", "l", "n", "a", "m", "e">>,
       <<"n", "a", "m", "e">>,
       <<"s", "t", "u", "d", "e", "n", "t", "n", "a", "m", "e">>,
       <<"s", "t", "u", "d", "e", "n", "t">> >>

\* normalized_to_original[key]: the last header whose normal form is key
normalized_to_original(fieldnames, key) ==
    LET I == {i \in 1..Len(fieldnames) : normalize_header(fieldnames[i]) = key}
    IN fieldnames[CHOOSE i \in I : \A j \in I : j <= i]

\* The first key, in the dict's insertion order, whose normal form contains part
first_key_containing(fieldnames, part) ==
    LET I == {i \in 1..Len(fieldnames) : Contains(part, normalize_header(fieldnames[i]))}
    IN IF I = {} THEN None
       ELSE normalized_to_original(fieldnames,
                normalize_header(fieldnames[CHOOSE i \in I : \A j \in I : i <= j]))

detect_fullname_field(fieldnames) ==
    LET norms == {normalize_header(fieldnames[i]) : i \in 1..Len(fieldnames)}
        hits == {j \in 1..Len(candidate_keys) : candidate_keys[j] \in norms}
    IN IF fieldnames = <<>> THEN None
       ELSE IF hits # {}
            THEN normalized_to_original(fieldnames,
                     candidate_keys[CHOOSE j \in hits : \A k \in hits : j <= k])
            ELSE first_key_containing(fieldnames, <<"n", "a", "m", "e">>)

detect_email_field(fieldnames) ==
    first_key_containing(fieldnames, <<"e", "m", "a", "i", "l">>)

\* row.get(field): csv.DictReader keeps the last column of a repeated header
row_get(fieldnames, row, field) ==
    LET I == {i \in 1..Len(fieldnames) : fieldnames[i] = field}
    IN row[CHOOSE i \in I : \A j \in I : j <= i]

\* email_value.split("@", 1)[0]
RECURSIVE before_at(_)
before_at(s) ==
    IF s = <<>> \/ Head(s) = "@" THEN <<>> ELSE <<Head(s)>> \o before_at(Tail(s))

\* Line 93: re.sub(r"\s+", " ", raw_full).strip().strip('"')
clean_full_name(raw_full) == strip_quotes(strip(collapse_whitespace(raw_full)))

\* Lines 90-109: what the loop body appends for one row: <<name>>, or <<>> when
\* the row is skipped (continue)
display_name_of_row(fieldnames, row, full_name_field, email_field, preferred_by_netid) ==
    LET raw_full == strip(row_get(fieldnames, row, full_name_field))
        clean_full == clean_full_name(raw_full)
        email_value == IF email_field = None THEN <<>>
                       ELSE strip(row_get(fieldnames, row, email_field))
        netid == strip(before_at(email_value))
    IN IF raw_full = <<>> THEN <<>>
       ELSE IF clean_full = <<>> THEN <<>>
       ELSE IF /\ preferred_by_netid # None
               /\ email_field # None
               /\ email_value # <<>>
               /\ "@" \in {email_value[i] : i \in 1..Len(email_value)}
               /\ netid \in DOMAIN preferred_by_netid
               /\ strip(preferred_by_netid[netid]) # <<>>
            THEN <<strip(preferred_by_netid[netid])>>
            ELSE <<clean_full>>

\* load_preferred_names_csv over the rows [netid, preferred_name] of the file
RECURSIVE load_preferred_names_csv(_)
load_preferred_names_csv(rows) ==
    IF rows = <<>> THEN None
    ELSE LET before == load_preferred_names_csv(SubSeq(rows, 1, Len(rows) - 1))
             last == rows[Len(rows)]
             netid == strip(last.netid)
         IN IF netid = <<>> THEN before
            ELSE (netid :> strip(last.preferred_name)) @@ before

\* read_full_names_from_csv on a whole file: "ValueError" or the list of names
RECURSIVE names_of_rows(_, _, _, _, _)
names_of_rows(fieldnames, rows, full_name_field, email_field, preferred_by_netid) ==
    IF rows = <<>> THEN <<>>
    ELSE display_name_of_row(fieldnames, Head(rows), full_name_field, email_field,
                             preferred_by_netid)
         \o names_of_rows(fieldnames, Tail(rows), full_name_field, email_field,
                          preferred_by_netid)

read_full_names_from_csv(file, preferred_by_netid) ==
    LET full_name_field == detect_fullname_field(file.fieldnames)
    IN IF full_name_field = None
       THEN [raised |-> TRUE, names |-> <<>>]
       ELSE [raised |-> FALSE,
             names |-> names_of_rows(file.fieldnames, file.rows, full_name_field,
                                     detect_email_field(file.fieldnames),
                                     preferred_by_netid)]

---------------------------------------------------------------------------
(* Runs of the roster loader, row by row, on every bounded cell content *)

CsvChars == {"a", " ", "\""}
Cells == SeqsUpTo(CsvChars, MaxCell)
EmailCells == { <<>>, <<"a", "@", "x">>, <<"a", " ", "@">>, <<"b", "@", "x">> }

H_FullName == <<"F", "u", "l", "l", " ", "n", "a", "m", "e">>
H_Email == <<"E", "m", "a", "i", "l">>
H_StudentName == <<"s", "t", "u", "d", "e", "n", "t", "_", "n", "a", "m", "e">>
H_First == <<"F", "i", "r", "s", "t">>
H_Last == <<"L", "a", "s", "t">>

HeaderLists ==
    { <<H_FullName, H_Email>>, <<H_Email, H_StudentName>>, <<H_StudentName>>,
      <<H_First, H_Last>> }

RdInit ==
    /\ rd_pc = "open"
    /\ rd_fieldnames \in HeaderLists
    /\ rd_fields = [full_name_field |-> None, email_field |-> None]
    /\ rd_preferred \in
           {None} \cup {load_preferred_names_csv(<<[netid |-> <<"a">>, preferred_name |-> c]>>) :
                           c \in Cells}
    /\ rd_names = <<>>

\* Lines 71-87: open the file, detect the name column or raise ValueError,
\* detect the email column
ReadHeader ==
    /\ rd_pc = "open"
    /\ LET full_name_field == detect_fullname_field(rd_fieldnames)
       IN IF full_name_field = None
          THEN /\ rd_pc' = "ValueError"
               /\ UNCHANGED rd_fields
          ELSE /\ rd_pc' = "rows"
               /\ rd_fields' = [full_name_field |-> full_name_field,
                                email_field |-> detect_email_field(rd_fieldnames)]
    /\ UNCHANGED <<rd_fieldnames, rd_preferred, rd_names>>
    /\ UNCHANGED <<fitVars, mainVars, panelVars>>

\* Lines 89-109: one iteration of the loop over the rows
ReadRow ==
    /\ rd_pc = "rows"
    /\ Len(rd_names) < MaxRosterRows
    /\ \E full \in Cells, email \in EmailCells :
          LET row == [i \in 1..Len(rd_fieldnames) |->
                         IF rd_fieldnames[i] = rd_fields.full_name_field THEN full
                         ELSE IF rd_fieldnames[i] = rd_fields.email_field THEN email
                         ELSE <<>>]
          IN rd_names' = rd_names \o display_name_of_row(rd_fieldnames, row,
                                         rd_fields.full_name_field,
                                         rd_fields.email_field, rd_preferred)
    /\ UNCHANGED <<rd_pc, rd_fieldnames, rd_fields, rd_preferred>>
    /\ UNCHANGED <<fitVars, mainVars, panelVars>>

\* Line 110: return names
ReadReturn ==
    /\ rd_pc = "rows"
    /\ rd_pc' = "returned"
    /\ UNCHANGED <<rd_fieldnames, rd_fields, rd_preferred, rd_names>>
    /\ UNCHANGED <<fitVars, mainVars, panelVars>>

RdNext == ReadHeader \/ ReadRow \/ ReadReturn

\* A DisplayName of the data model: non-empty, trimmed, no whitespace run
WellFormedName(name) ==
    /\ name # <<>>
    /\ ~IsSpace(name[1])
    /\ ~IsSpace(name[Len(name)])
    /\ \A i \in 1..(Len(name) - 1) : ~(IsSpace(name[i]) /\ IsSpace(name[i + 1]))

\* C9: every display name read_full_names_from_csv returns is non-empty, has no
\* leading or trailing whitespace and no run of two or more whitespace characters.
C9_NamesWellFormed ==
    \A i \in 1..Len(rd_names) : WellFormedName(rd_names[i])

---------------------------------------------------------------------------
(* Runs of the line-fit engine on every bounded input *)

FitChars == {"i", "W", " "}
FitTexts == SeqsUpTo(FitChars, MaxLen)
FitWidths == {k * 300 : k \in 1..MaxWidthSteps}
NameFont == "Helvetica-Bold"
NotCalled == [lines |-> <<>>, size |-> -1]

FitInit ==
    /\ fit_args \in {a \in [text : FitTexts, max_width : FitWidths,
                            max_size : 1..MaxFontSize, min_size : 1..MaxFontSize] :
                        a.min_size <= a.max_size}
    /\ fit_result = NotCalled

CallLayout ==
    /\ fit_result = NotCalled
    /\ fit_result' = layout_name_lines(fit_args.text, NameFont, fit_args.max_width,
                                       fit_args.max_size, fit_args.min_size)
    /\ UNCHANGED fit_args
    /\ UNCHANGED <<rdVars, mainVars, panelVars>>

FitNext == CallLayout


---------------------------------------------------------------------------
(* main and generate_pdf *)

\* landscape(letter) and landscape(A4), in units of 1/127 pt (A4 is 297 mm x 210 mm
\* and 1 mm = 72/25.4 pt, so both are whole numbers of that unit)
landscape_size(page_size_name) ==
    IF page_size_name = "a4"
    THEN [page_width |-> 106920, page_height |-> 75600]
    ELSE [page_width |-> 100584, page_height |-> 77724]

\* Truthiness of args.preferred_names_csv ("None" stands for None)
Truthy(path) == path \notin {"None", ""}

\* os.path.exists on the paths of the runs
path_exists(path) == path = "pref.csv"

PrefFileRows == << [netid |-> <<"a">>, preferred_name |-> <<"W", " ", "W">>] >>

\* Lines 604-610: the grid main passes to generate_pdf
choose_grid(a) ==
    IF a.tent /\ a.rows = 2 /\ a.cols = 2
    THEN (IF a.tent_style = "tri" THEN [rows |-> 1, cols |-> 2]
                                  ELSE [rows |-> 2, cols |-> 1])
    ELSE [rows |-> a.rows, cols |-> a.cols]

\* Lines 593-595: where main goes with what read_full_names_from_csv did
after_read_skip_empty_check(result) ==
    IF result.raised THEN "exit_no_column" ELSE "makedirs"

after_read(result) ==
    IF result.raised THEN "exit_no_column"
    ELSE IF result.names = <<>> THEN "exit_no_names"
    ELSE "makedirs"

\* Line 479: whether the loop ends the page before drawing name idx
needs_page_break_also_first(i, tags_per_page) == i % tags_per_page = 0

needs_page_break(i, tags_per_page) == i > 0 /\ i % tags_per_page = 0

\* Lines 482-489: the cell and the origin of name idx.  x_num / tags_per_row and
\* y_num / tags_per_col are x and y in page units.
cell_of_rows_by_col_count(i, tags_per_row, tags_per_col, page) ==
    LET pos_in_page == i % (tags_per_row * tags_per_col)
        col_index == pos_in_page % tags_per_col
        row_index_top_down == pos_in_page \div tags_per_col
    IN [col |-> col_index, row |-> row_index_top_down,
        x_num |-> col_index * page.page_width,
        y_num |-> page.page_height * tags_per_col
                    - (row_index_top_down + 1) * page.page_height]

cell_of(i, tags_per_row, tags_per_col, page) ==
    LET pos_in_page == i % (tags_per_row * tags_per_col)
        col_index == pos_in_page % tags_per_row
        row_index_top_down == pos_in_page \div tags_per_row
    IN [col |-> col_index, row |-> row_index_top_down,
        x_num |-> col_index * page.page_width,
        y_num |-> page.page_height * tags_per_col
                    - (row_index_top_down + 1) * page.page_height]

\* Lines 472-474
tags_per_row == Max2(1, grid.cols)
tags_per_col == Max2(1, grid.rows)
tags_per_page == tags_per_row * tags_per_col

\* The roster files of the runs: n rows under "Full name,Email"; rows with blank
\* names only; a file with no name column.
RosterRow(k) ==
    << IF k % 2 = 1 THEN <<"a">> ELSE <<" ", "a", " ", " ", "a", " ">>,
       IF k = 1 THEN <<"a", "@", "x">> ELSE <<"b", "@", "x">> >>

Roster(n) == [fieldnames |-> <<H_FullName, H_Email>>, rows |-> [k \in 1..n |-> RosterRow(k)]]

RosterBlank ==
    [fieldnames |-> <<H_FullName, H_Email>>,
     rows |-> << <<<<" ">>, <<"a", "@", "x">>>>, <<<<"\"", "\"">>, <<>>>> >>]

RosterNoColumn ==
    [fieldnames |-> <<H_First, H_Last>>, rows |-> << <<<<"a">>, <<"a">>>> >>]

RosterFiles == {Roster(n) : n \in 0..MaxNames} \cup {RosterBlank, RosterNoColumn}

\* parse_args: --rows / --cols are any integers, 2 when not given
GridArgs ==
    {[given |-> FALSE, value |-> 2]} \cup {[given |-> TRUE, value |-> v] : v \in 0..MaxGrid}

MainInit ==
    /\ \E r \in GridArgs, c \in GridArgs :
         args \in {a \in [input_csv : RosterFiles,
                         preferred_names_csv : {"None", "", "missing.csv", "pref.csv"},
                         page_size : {"letter", "a4"},
                         tent : BOOLEAN,
                         tent_style : {"tri", "bi"},
                         rows : {r.value}, cols : {c.value},
                         rows_given : {r.given}, cols_given : {c.given}] : TRUE}
    /\ pc = "main"
    /\ preferred_map = None
    /\ names = <<>>
    /\ grid = [rows |-> 0, cols |-> 0]
    /\ idx = 0
    /\ pages = <<>>
    /\ cur_page = {}
    /\ breaks = {}
    /\ placements = {}
    /\ log = <<>>
    /\ exit_status = -1

\* Lines 587-591: the preferred-names file is checked and loaded
CheckPreferred ==
    /\ pc = "main"
    /\ IF Truthy(args.preferred_names_csv)
       THEN IF ~path_exists(args.preferred_names_csv)
            THEN /\ pc' = "exit_pref_missing"
                 /\ exit_status' = 1
                 /\ log' = Append(log, "exists")
                 /\ UNCHANGED preferred_map
            ELSE /\ pc' = "read"
                 /\ preferred_map' = load_preferred_names_csv(PrefFileRows)
                 /\ log' = log \o <<"exists", "load_preferred">>
                 /\ UNCHANGED exit_status
       ELSE /\ pc' = "read"
            /\ UNCHANGED <<preferred_map, log, exit_status>>
    /\ UNCHANGED <<args, names, grid, idx, pages, cur_page, breaks, placements>>
    /\ UNCHANGED <<fitVars, rdVars, panelVars>>

\* Lines 593-595: the roster is read; ValueError and an empty list end the run
ReadRoster ==
    /\ pc = "read"
    /\ LET result == read_full_names_from_csv(args.input_csv, preferred_map)
       IN /\ names' = result.names
          /\ pc' = after_read(result)
          /\ exit_status' = IF after_read(result) = "makedirs" THEN exit_status ELSE 1
    /\ log' = Append(log, "read_csv")
    /\ UNCHANGED <<args, preferred_map, grid, idx, pages, cur_page, breaks, placements>>
    /\ UNCHANGED <<fitVars, rdVars, panelVars>>

\* Lines 597-610: the output directory is made and the grid chosen
MakeDirsAndGrid ==
    /\ pc = "makedirs"
    /\ log' = Append(log, "makedirs")
    /\ grid' = choose_grid(args)
    /\ pc' = "generate_pdf"
    /\ UNCHANGED <<args, preferred_map, names, idx, pages, cur_page, breaks, placements,
                   exit_status>>
    /\ UNCHANGED <<fitVars, rdVars, panelVars>>

\* Lines 460-476: generate_pdf opens the canvas
OpenCanvas ==
    /\ pc = "generate_pdf"
    /\ log' = Append(log, "Canvas")
    /\ idx' = 0
    /\ pc' = "loop"
    /\ UNCHANGED <<args, preferred_map, names, grid, pages, cur_page, breaks, placements,
                   exit_status>>
    /\ UNCHANGED <<fitVars, rdVars, panelVars>>

\* What the loop's page break does to the canvas before name idx is drawn
PagesAtDraw == IF needs_page_break(idx, tags_per_page) THEN Append(pages, cur_page) ELSE pages

\* Lines 478-523: one iteration of the loop, the name drawn
DrawName ==
    /\ pc = "loop"
    /\ idx < Len(names)
    /\ pages' = PagesAtDraw
    /\ breaks' = IF needs_page_break(idx, tags_per_page) THEN breaks \cup {idx} ELSE breaks
    /\ cur_page' = (IF needs_page_break(idx, tags_per_page) THEN {} ELSE cur_page) \cup {idx}
    /\ placements' = placements \cup
          {[i |-> idx,
            page |-> Len(PagesAtDraw),
            cell |-> cell_of(idx, tags_per_row, tags_per_col, landscape_size(args.page_size)),
            drawn_by |-> IF args.tent /\ args.tent_style = "tri" THEN "draw_tent_card"
                         ELSE IF args.tent /\ args.tent_style = "bi" THEN "draw_tent_card_bi"
                         ELSE "draw_nametag"]}
    /\ idx' = idx + 1
    /\ UNCHANGED <<args, pc, preferred_map, names, grid, log, exit_status>>
    /\ UNCHANGED <<fitVars, rdVars, panelVars>>

\* Lines 478-523: one iteration of the loop, the draw call raising; nothing
\* catches it, so generate_pdf and main are left with pdf.save() not called
DrawRaises ==
    /\ pc = "loop"
    /\ idx < Len(names)
    /\ pages' = PagesAtDraw
    /\ breaks' = IF needs_page_break(idx, tags_per_page) THEN breaks \cup {idx} ELSE breaks
    /\ cur_page' = IF needs_page_break(idx, tags_per_page) THEN {} ELSE cur_page
    /\ pc' = "crashed"
    /\ exit_status' = 1
    /\ UNCHANGED <<args, preferred_map, names, grid, idx, placements, log>>
    /\ UNCHANGED <<fitVars, rdVars, panelVars>>

\* Lines 525 and 623: pdf.save() ends the page in progress and writes the file
Save ==
    /\ pc = "loop"
    /\ idx >= Len(names)
    /\ pages' = IF cur_page # {} THEN Append(pages, cur_page) ELSE pages
    /\ cur_page' = {}
    /\ log' = Append(log, "save")
    /\ pc' = "done"
    /\ exit_status' = 0
    /\ UNCHANGED <<args, preferred_map, names, grid, idx, breaks, placements>>
    /\ UNCHANGED <<fitVars, rdVars, panelVars>>

MainNext ==
    \/ CheckPreferred
    \/ ReadRoster
    \/ MakeDirsAndGrid
    \/ OpenCanvas
    \/ DrawName
    \/ DrawRaises
    \/ Save

---------------------------------------------------------------------------
(* Panel renderer.  Lengths in millipoints: inch = 72000.  Coordinates that   *)
(* the code halves are kept doubled (text_x2, start_y2).                      *)

\* Lines 232-241 and 294-302: the footer's size, 10 pt unless it is too wide
footer_size_for_always_refit(footer_text, available_width) ==
    find_font_size_for_line(footer_text, "Helvetica", available_width, 14, 8)

footer_size_for(footer_text, available_width) ==
    IF measure_text_width(footer_text, "Helvetica", 10) > available_width
    THEN find_font_size_for_line(footer_text, "Helvetica", available_width, 14, 8)
    ELSE 10

\* total_text_height of n lines at font_size: n * size + (n - 1) * 0.15 * size
total_text_height(n, font_size) == n * font_size * 1000 + (n - 1) * 150 * font_size

\* Lines 259-266 and 317-324: the anti-overlap step, returning the font size
anti_overlap_no_floor(n, font_size, name_area_height) ==
    IF name_area_height > 0 /\ total_text_height(n, font_size) > name_area_height
    THEN (font_size * name_area_height) \div total_text_height(n, font_size)
    ELSE font_size

anti_overlap(n, font_size, name_area_height) ==
    IF name_area_height > 0 /\ total_text_height(n, font_size) > name_area_height
    THEN Max2((font_size * name_area_height) \div total_text_height(n, font_size), 14)
    ELSE font_size

\* The footer and name block both renderers draw in a region with its
\* bottom-left corner at (x, y)
panel_content(x, y, region_width, region_height, name_text, footer_text, padding_x, padding_y, max_size) ==
    LET available_width == Max2(0, region_width - 2 * padding_x)
        footer_size == footer_size_for(footer_text, available_width)
        footer_width == measure_text_width(footer_text, "Helvetica", footer_size)
        footer_y == y + padding_y
        name_area_top == y + region_height - padding_y
        name_area_bottom == footer_y + footer_size * 1000 + 14400
        name_area_height == Max2(0, name_area_top - name_area_bottom)
        layout == layout_name_lines(name_text, "Helvetica-Bold", available_width,
                                    max_size, 18)
        n == Len(layout.lines)
        font_size == anti_overlap(n, layout.size, name_area_height)
        height == total_text_height(n, font_size)
        start_y2 == Max2(2 * (name_area_bottom + 4000),
                         2 * name_area_bottom + name_area_height - height)
    IN [footer_size |-> footer_size,
        footer_x2 |-> 2 * x + region_width - footer_width,
        footer_y |-> footer_y,
        name_area_height |-> name_area_height,
        lines |-> layout.lines,
        fitted_size |-> layout.size,
        font_size |-> font_size,
        text_x2 |-> [i \in 1..n |->
                        2 * x + region_width
                          - measure_text_width(layout.lines[i], "Helvetica-Bold", font_size)],
        text_y2 |-> [i \in 1..n |-> start_y2 + 2 * (n - i) * (font_size * 1000 + 150 * font_size)]]

\* Lines 210-278
draw_nametag(x, y, tag_width, tag_height, name_text, footer_text) ==
    panel_content(x, y, tag_width, tag_height, name_text, footer_text, 25200, 8640, 96)

\* Lines 281-334
draw_panel_content_at_origin(region_width, region_height, name_text, footer_text, padding_x, padding_y) ==
    panel_content(0, 0, region_width, region_height, name_text, footer_text,
                  padding_x, padding_y, 84)

---------------------------------------------------------------------------
(* Runs of the panel renderer on every bounded panel, name and footer *)

\* Names as the roster loader hands them on: non-empty, trimmed
PanelNames == {t \in SeqsUpTo({"i", "W", " "}, MaxPanelNameLen) : t # <<>> /\ strip(t) = t}
PanelFooters == SeqsUpTo({"W"}, MaxFooterLen)
PanelWidths == {25000 * k : k \in 1..MaxPanelWidthSteps}
PanelHeights == {20000 * k : k \in 1..MaxPanelHeightSteps}
NotDrawn == [by |-> "nothing"]

PanelInit ==
    /\ panel_args \in [tag_width : PanelWidths, tag_height : PanelHeights,
                       name_text : PanelNames, footer_text : PanelFooters]
    /\ panel_drawn = NotDrawn

\* draw_nametag on the panel, at the page origin
DrawFlat ==
    /\ panel_drawn = NotDrawn
    /\ panel_drawn' = [by |-> "draw_nametag",
                       out |-> draw_nametag(0, 0, panel_args.tag_width,
                                            panel_args.tag_height, panel_args.name_text,
                                            panel_args.footer_text)]
    /\ UNCHANGED panel_args
    /\ UNCHANGED <<fitVars, rdVars, mainVars>>

\* _draw_panel_content_at_origin on the panel, with the tent cards' paddings
\* (lines 355-356, 416-417)
DrawPanelContent ==
    /\ panel_drawn = NotDrawn
    /\ panel_drawn' = [by |-> "_draw_panel_content_at_origin",
                       out |-> draw_panel_content_at_origin(panel_args.tag_width,
                                   panel_args.tag_height, panel_args.name_text,
                                   panel_args.footer_text, 25200, 12960)]
    /\ UNCHANGED panel_args
    /\ UNCHANGED <<fitVars, rdVars, mainVars>>

PanelNext == DrawFlat \/ DrawPanelContent

\* Runs of both renderers on panels about as wide as their footers
FooterTexts == SeqsUpTo({"i", "W"}, MaxFooterLen)
FooterWidths == {50000 + 2500 * k : k \in 0..MaxFooterWidthSteps}
FooterRunNames == {<<"i">>, <<"W", " ", "W">>}

FooterInit ==
    /\ panel_args \in [tag_width : FooterWidths, tag_height : PanelHeights,
                       name_text : FooterRunNames, footer_text : FooterTexts]
    /\ panel_drawn = NotDrawn

---------------------------------------------------------------------------
(* The canvas.  The current transformation matrix maps a local point (u, v)  *)
(* to the page point (a*u + c*v + e, b*u + d*v + f); e, f and the            *)
(* coordinates of the strings drawn are kept doubled.                        *)

IdentityMatrix == [a |-> 1, b |-> 0, c |-> 0, d |-> 1, e |-> 0, f |-> 0]

NewCanvas ==
    [ctm |-> IdentityMatrix, font_name |-> "Helvetica", font_size |-> 12,
     fill |-> "black", dash |-> FALSE, stack |-> <<>>, strings |-> <<>>, strokes |-> <<>>]

\* pdf.transform: the matrix m is applied to a local point before the current one
transform(canvas, m) ==
    LET t == canvas.ctm
    IN [canvas EXCEPT !.ctm =
           [a |-> t.a * m.a + t.c * m.b, b |-> t.b * m.a + t.d * m.b,
            c |-> t.a * m.c + t.c * m.d, d |-> t.b * m.c + t.d * m.d,
            e |-> t.a * m.e + t.c * m.f + t.e, f |-> t.b * m.e + t.d * m.f + t.f]]

\* pdf.translate(dx, dy)
translate(canvas, dx, dy) ==
    transform(canvas, [a |-> 1, b |-> 0, c |-> 0, d |-> 1, e |-> 2 * dx, f |-> 2 * dy])

\* pdf.rotate(theta) for a multiple of 90 degrees: (cos, sin, -sin, cos, 0, 0)
rotate(canvas, theta) ==
    LET cos == CASE theta = 0 -> 1 [] theta = 180 -> -1 [] OTHER -> 0
        sin == CASE theta = 90 -> 1 [] theta = 270 -> -1 [] OTHER -> 0
    IN transform(canvas, [a |-> cos, b |-> sin, c |-> -sin, d |-> cos, e |-> 0, f |-> 0])

\* pdf.saveState() and pdf.restoreState()
saveState(canvas) ==
    [canvas EXCEPT !.stack =
        Append(@, [ctm |-> canvas.ctm, font_name |-> canvas.font_name,
                   font_size |-> canvas.font_size, fill |-> canvas.fill,
                   dash |-> canvas.dash])]

restoreState(canvas) ==
    LET top == canvas.stack[Len(canvas.stack)]
    IN [canvas EXCEPT !.ctm = top.ctm, !.font_name = top.font_name,
                      !.font_size = top.font_size, !.fill = top.fill, !.dash = top.dash,
                      !.stack = SubSeq(@, 1, Len(@) - 1)]

setFont(canvas, font_name, font_size) ==
    [canvas EXCEPT !.font_name = font_name, !.font_size = font_size]

setFillColor(canvas, colour) == [canvas EXCEPT !.fill = colour]

setDash(canvas, on) == [canvas EXCEPT !.dash = on]

\* pdf.drawString(x2 / 2, y2 / 2, text): the string, its font and colour, the
\* arguments x2 and y2 (u2, v2), the page point its baseline starts at (doubled),
\* the direction its baseline runs in and the frame it is drawn in
drawString(canvas, x2, y2, text) ==
    LET t == canvas.ctm
    IN [canvas EXCEPT !.strings =
           Append(@, [text |-> text, font_name |-> canvas.font_name,
                      font_size |-> canvas.font_size, fill |-> canvas.fill,
                      u2 |-> x2, v2 |-> y2,
                      x2 |-> t.a * x2 + t.c * y2 + t.e,
                      y2 |-> t.b * x2 + t.d * y2 + t.f,
                      dir |-> <<t.a, t.b>>, frame |-> t])]

\* pdf.rect and pdf.line, in the frame of the page (both are called untransformed)
rect(canvas, x, y, width, height) ==
    [canvas EXCEPT !.strokes =
        Append(@, [kind |-> "rect", from |-> <<x, y>>, to |-> <<x + width, y + height>>,
                   dash |-> canvas.dash])]

pdf_line(canvas, x1, y1, x2, y2) ==
    [canvas EXCEPT !.strokes =
        Append(@, [kind |-> "line", from |-> <<x1, y1>>, to |-> <<x2, y2>>,
                   dash |-> canvas.dash])]

---------------------------------------------------------------------------
(* Tent cards *)

RECURSIVE draw_lines(_, _, _)
draw_lines(canvas, out, i) ==
    IF i > Len(out.lines) THEN canvas
    ELSE draw_lines(drawString(canvas, out.text_x2[i], out.text_y2[i], out.lines[i]),
                    out, i + 1)

\* Lines 296-305 and 316-334: the calls _draw_panel_content_at_origin makes on
\* the canvas, the footer first and then the name's lines, given what it computed
draw_content(canvas, out, footer_text) ==
    draw_lines(setFont(drawString(setFillColor(setFont(canvas, "Helvetica", out.footer_size),
                                               "black"),
                                  out.footer_x2, 2 * out.footer_y, footer_text),
                       "Helvetica-Bold", out.font_size),
               out, 1)

\* Lines 281-334
draw_panel_content_on(canvas, region_width, region_height, name_text, footer_text, padding_x, padding_y) ==
    draw_content(canvas,
                 draw_panel_content_at_origin(region_width, region_height, name_text,
                                              footer_text, padding_x, padding_y),
                 footer_text)

FlapLabel == <<"F", "o", "l", "d", "/", "G", "l", "u", "e", " ", "F", "l", "a", "p">>

\* Lines 380-383: the point the back face's frame is translated to
back_origin_bottom_left(x, y, tag_width, panel_h) == <<x, y + 2 * panel_h>>

back_origin(x, y, tag_width, panel_h) == <<x + tag_width, (y + 2 * panel_h) + panel_h>>

\* Lines 337-396.  tag_height is a multiple of 3 in every run, so that
\* panel_h = tag_height / 3.0 is a whole number of millipoints.
draw_tent_card(canvas, x, y, tag_width, tag_height, name_text, footer_text, draw_border) ==
    LET panel_h == tag_height \div 3
        pad_x == 25200
        pad_y == 12960
        c1 == IF draw_border THEN rect(canvas, x, y, tag_width, tag_height) ELSE canvas
        c2 == pdf_line(setDash(c1, TRUE), x, y + panel_h, x + tag_width, y + panel_h)
        c3 == pdf_line(c2, x, y + 2 * panel_h, x + tag_width, y + 2 * panel_h)
        c4 == setDash(c3, FALSE)
        front == draw_panel_content_on(translate(saveState(c4), x, y + panel_h),
                     tag_width, panel_h, name_text, footer_text, pad_x, pad_y)
        c5 == restoreState(front)
        origin == back_origin(x, y, tag_width, panel_h)
        back == draw_panel_content_on(
                     rotate(translate(saveState(c5), origin[1], origin[2]), 180),
                     tag_width, panel_h, name_text, footer_text, pad_x, pad_y)
        c6 == restoreState(back)
        c7 == setFillColor(setFont(translate(saveState(c6), x, y), "Helvetica", 9), "grey")
        lw == measure_text_width(FlapLabel, "Helvetica", 9)
        flap == drawString(c7, tag_width - lw, panel_h - 8000, FlapLabel)
    IN restoreState(flap)

---------------------------------------------------------------------------
(* Runs of draw_tent_card on every bounded cell, name and footer *)

TentOffsets == {0, 36000}
TentNames == {<<"i">>, <<"W">>, <<"i", " ", "W">>, <<"W", " ", "W">>}
TentFooters == {f \in PanelFooters : Len(f) \in {0, MaxFooterLen}}

TentInit ==
    /\ panel_args \in [x : TentOffsets, y : TentOffsets, tag_width : PanelWidths,
                       tag_height : {3 * h : h \in PanelHeights},
                       name_text : TentNames, footer_text : TentFooters,
                       draw_border : BOOLEAN]
    /\ panel_drawn = NotDrawn

DrawTentCard ==
    /\ panel_drawn = NotDrawn
    /\ panel_drawn' = [by |-> "draw_tent_card",
                       canvas |-> draw_tent_card(NewCanvas, panel_args.x, panel_args.y,
                                      panel_args.tag_width, panel_args.tag_height,
                                      panel_args.name_text, panel_args.footer_text,
                                      panel_args.draw_border)]
    /\ UNCHANGED panel_args
    /\ UNCHANGED <<fitVars, rdVars, mainVars>>

TentNext == DrawTentCard

---------------------------------------------------------------------------
(* Properties of the line-fit engine *)

Called == fit_result # NotCalled

FitWidth(line, size) == measure_text_width(line, NameFont, size)

FitsOneLine(size) == FitWidth(fit_args.text, size) <= fit_args.max_width

FitSizes == fit_args.min_size..fit_args.max_size

Words == split(fit_args.text)

SplitPoints == 1..(Len(Words) - 1)

Line1(k) == join(Words, 1, k)

Line2(k) == join(Words, k + 1, Len(Words))

Feasible(size, k) ==
    /\ FitWidth(Line1(k), size) <= fit_args.max_width
    /\ FitWidth(Line2(k), size) <= fit_args.max_width

MaxLineWidth(size, k) == Max2(FitWidth(Line1(k), size), FitWidth(Line2(k), size))

AllLinesFit ==
    \A j \in 1..Len(fit_result.lines) :
        FitWidth(fit_result.lines[j], fit_result.size) <= fit_args.max_width

TokenTooWide ==
    \E j \in 1..Len(Words) : FitWidth(Words[j], fit_args.min_size) > fit_args.max_width

OverflowFallback ==
    /\ fit_result = [lines |-> <<fit_args.text>>, size |-> fit_args.min_size]
    /\ ~FitsOneLine(fit_args.min_size)

\* Neither one line nor any two-line split fits at min_size.
Unfittable ==
    /\ ~FitsOneLine(fit_args.min_size)
    /\ \A k \in SplitPoints : ~Feasible(fit_args.min_size, k)

\* A DisplayName: non-empty, its tokens joined by single spaces.
IsDisplayName(text) ==
    /\ text # <<>>
    /\ text = join(split(text), 1, Len(split(text)))

\* C1 as stated: every line of the returned layout is within max_width unless
\* some single token is wider than max_width at min_size, and the overflowing
\* fallback is returned only when there is such a token.  (Stated here for the
\* texts that are display names; it fails already for those.)
C1_AsStated ==
    (Called /\ IsDisplayName(fit_args.text)) =>
        /\ (AllLinesFit \/ TokenTooWide)
        /\ (OverflowFallback => TokenTooWide)

\* C1 amended: every line of the returned layout is within max_width unless the
\* text fits neither on one line nor in any two-line word split at min_size;
\* the overflowing fallback is returned exactly in that case.
C1_LinesFitUnlessUnfittable ==
    Called => /\ (Unfittable => OverflowFallback)
              /\ (~Unfittable => AllLinesFit /\ ~OverflowFallback)

C1_Witness ==
    /\ Called
    /\ OverflowFallback
    /\ Len(Words) >= 3
    /\ ~TokenTooWide

\* C2: when the whole text fits on one line at some size of [min_size, max_size],
\* the layout is the unmodified text alone, at the largest such size.
C2_SingleLineLargest ==
    (Called /\ \E s \in FitSizes : FitsOneLine(s)) =>
        /\ fit_result.lines = <<fit_args.text>>
        /\ fit_result.size \in FitSizes
        /\ FitsOneLine(fit_result.size)
        /\ \A t \in FitSizes : FitsOneLine(t) => t <= fit_result.size

C2_Witness ==
    /\ Called
    /\ Len(Words) >= 2
    /\ Len(fit_result.lines) = 1
    /\ FitsOneLine(fit_result.size)
    /\ fit_args.min_size < fit_result.size
    /\ fit_result.size < fit_args.max_size
    /\ \E k \in SplitPoints : Feasible(fit_args.max_size, k)

\* C3: when the text does not fit on one line at min_size and some (size, split)
\* is feasible, the layout is a non-empty prefix and suffix of the tokens, at the
\* largest size with a feasible split, with the leftmost split among those that
\* minimise the wider line at that size.
C3_BestSplit ==
    (Called /\ ~FitsOneLine(fit_args.min_size)
            /\ \E s \in FitSizes : \E k \in SplitPoints : Feasible(s, k)) =>
        \E k \in SplitPoints :
            /\ fit_result.lines = <<Line1(k), Line2(k)>>
            /\ Line1(k) # <<>> /\ Line2(k) # <<>>
            /\ split(fit_result.lines[1]) \o split(fit_result.lines[2]) = Words
            /\ fit_result.size \in FitSizes
            /\ Feasible(fit_result.size, k)
            /\ \A t \in FitSizes : \A j \in SplitPoints :
                   Feasible(t, j) => t <= fit_result.size
            /\ \A j \in SplitPoints :
                   Feasible(fit_result.size, j) =>
                       /\ MaxLineWidth(fit_result.size, k) <= MaxLineWidth(fit_result.size, j)
                       /\ (MaxLineWidth(fit_result.size, j) = MaxLineWidth(fit_result.size, k)
                             => k <= j)

C3_Witness ==
    /\ Called
    /\ Len(fit_result.lines) = 2
    /\ fit_result.size < fit_args.max_size
    /\ \E j, k \in SplitPoints :
           /\ j < k
           /\ fit_result.lines = <<Line1(j), Line2(j)>>
           /\ Feasible(fit_result.size, k)
           /\ MaxLineWidth(fit_result.size, j) = MaxLineWidth(fit_result.size, k)

---------------------------------------------------------------------------
(* Properties of main and generate_pdf *)

GridOk == grid.rows >= 1 /\ grid.cols >= 1

PerPage == grid.rows * grid.cols

CeilDiv(a, b) == (a + b - 1) \div b

InGeneratePdf == pc \in {"loop", "done", "crashed"}

Count(event) == Cardinality({k \in 1..Len(log) : log[k] = event})

\* The largest index whose loop iteration has begun
LastBegun == IF pc = "crashed" THEN idx ELSE idx - 1

\* C4: with rows, cols >= 1 a page break is emitted exactly before the names
\* i > 0 with i mod (rows*cols) = 0, name i is drawn on page i div (rows*cols),
\* and a finished run has written ceil(N / (rows*cols)) pages, none empty, the
\* names in roster order.
C4_Pagination ==
    (InGeneratePdf /\ GridOk) =>
        /\ breaks = {i \in 1..LastBegun : i % PerPage = 0}
        /\ {p.i : p \in placements} = 0..(idx - 1)
        /\ \A p \in placements : p.page = p.i \div PerPage
        /\ pc = "done" =>
              /\ Len(pages) = CeilDiv(Len(names), PerPage)
              /\ \A k \in 1..Len(pages) :
                    /\ pages[k] # {}
                    /\ pages[k] = {i \in 0..(Len(names) - 1) : i \div PerPage = k - 1}

C4_Witness ==
    /\ pc = "done"
    /\ GridOk
    /\ PerPage >= 2
    /\ Len(pages) >= 3
    /\ Len(names) % PerPage # 0

\* C5: with rows, cols >= 1 name i is drawn in column (i mod perPage) mod cols and
\* top-down row (i mod perPage) div cols, at x = column * (pageWidth / cols) and
\* y = pageHeight - (row + 1) * (pageHeight / rows); the cell is inside the grid,
\* the panel inside the page, and no two names of a page share a cell.
C5_Cells ==
    (InGeneratePdf /\ GridOk) =>
        \A p \in placements :
            LET pos == p.i % PerPage
                page == landscape_size(args.page_size)
            IN /\ p.cell.col = pos % grid.cols
               /\ p.cell.row = pos \div grid.cols
               /\ 0 <= p.cell.col /\ p.cell.col < grid.cols
               /\ 0 <= p.cell.row /\ p.cell.row < grid.rows
               /\ p.cell.x_num = p.cell.col * page.page_width
               /\ p.cell.y_num = page.page_height * grid.rows
                                   - (p.cell.row + 1) * page.page_height
               /\ 0 <= p.cell.x_num
               /\ p.cell.x_num + page.page_width <= page.page_width * grid.cols
               /\ 0 <= p.cell.y_num
               /\ p.cell.y_num + page.page_height <= page.page_height * grid.rows
               /\ \A q \in placements :
                     (q.page = p.page /\ q.cell.col = p.cell.col
                        /\ q.cell.row = p.cell.row) => q.i = p.i

C5_Witness ==
    /\ InGeneratePdf
    /\ GridOk
    /\ grid.rows # grid.cols
    /\ \E p \in placements : p.cell.row >= 1 /\ p.cell.col >= 1

TentDefaultGrid ==
    IF args.tent_style = "tri" THEN [rows |-> 1, cols |-> 2] ELSE [rows |-> 2, cols |-> 1]

\* C6 as stated: in tent mode the tent default grid is used exactly when the
\* caller gave neither --rows nor --cols; whenever the caller gave rows and/or
\* cols, and always in non-tent mode, generate_pdf gets the caller's rows x cols.
C6_AsStated ==
    (pc \in {"generate_pdf", "loop", "done", "crashed"}) =>
        /\ (args.tent /\ ~args.rows_given /\ ~args.cols_given) => grid = TentDefaultGrid
        /\ (~args.tent \/ args.rows_given \/ args.cols_given) =>
               grid = [rows |-> args.rows, cols |-> args.cols]

\* C7 as stated: the document opened by generate_pdf is saved exactly once on
\* every exit path, also when drawing a name raises.
C7_AsStated ==
    (pc \in {"done", "crashed"}) => Count("save") = 1

\* The three fatal cases, read off the inputs and the list read
PreferredMissing ==
    Truthy(args.preferred_names_csv) /\ ~path_exists(args.preferred_names_csv)

NoNameColumn ==
    \A i \in 1..Len(args.input_csv.fieldnames) :
        LET norm == normalize_header(args.input_csv.fieldnames[i])
        IN ~Contains(<<"n", "a", "m", "e">>, norm)
           /\ norm # <<"s", "t", "u", "d", "e", "n", "t">>

NoNamesRead == Count("read_csv") = 1 /\ names = <<>>

Exited == pc \in {"exit_pref_missing", "exit_no_column", "exit_no_names"}

NothingRendered ==
    /\ Count("makedirs") = 0
    /\ Count("Canvas") = 0
    /\ Count("save") = 0
    /\ placements = {}
    /\ pages = <<>>

\* C8: in each fatal case (preferred-names path given but missing, no name
\* column, no names) main ends with a non-zero status before it makes the output
\* directory, opens the canvas or writes the file; and the existence of the
\* preferred-names file is checked before the roster is read.
C8_FatalBeforeRendering ==
    /\ PreferredMissing =>
          /\ pc \in {"main", "exit_pref_missing"}
          /\ Count("read_csv") = 0
    /\ NoNameColumn => pc \in {"main", "read", "exit_pref_missing", "exit_no_column"}
    /\ NoNamesRead => Exited
    /\ (PreferredMissing \/ NoNameColumn \/ NoNamesRead) => NothingRendered
    /\ Exited => exit_status # 0 /\ NothingRendered
    /\ \A k \in 1..Len(log) :
          (log[k] = "read_csv" /\ Truthy(args.preferred_names_csv)) =>
              \E j \in 1..(k - 1) : log[j] = "exists"

C8_Witness ==
    /\ pc = "exit_no_names"
    /\ args.preferred_names_csv = "pref.csv"
    /\ args.input_csv = RosterBlank
    /\ log = <<"exists", "load_preferred", "read_csv">>
    /\ exit_status = 1

---------------------------------------------------------------------------
(* Properties of the panel renderer *)

Drawn == panel_drawn # NotDrawn

BlockHeight(size) ==
    Len(panel_drawn.out.lines) * size * 1000 + (Len(panel_drawn.out.lines) - 1) * 150 * size

AreaHeight == panel_drawn.out.name_area_height

FittedSize == panel_drawn.out.fitted_size

FinalSize == panel_drawn.out.font_size

AntiOverlapHolds ==
    /\ (BlockHeight(FinalSize) <= AreaHeight \/ FinalSize = 14)
    /\ BlockHeight(FittedSize) > AreaHeight =>
           FinalSize = Max2((FittedSize * AreaHeight) \div BlockHeight(FittedSize), 14)
    /\ FinalSize <= FittedSize

\* C10 as stated: for every panel, also one whose name area height is clamped to
\* 0, the name block ends no taller than the name area or at the 14 pt floor; a
\* block taller than the area is scaled to max(floor(size * area / block), 14);
\* the size is never increased.
C10_AsStated == Drawn => AntiOverlapHolds

\* C10 amended: the same for every panel whose name area height is positive;
\* when the name area height is clamped to 0 the step is skipped and the name
\* keeps its fitted size.
C10_AntiOverlapWhenAreaPositive ==
    Drawn => /\ AreaHeight > 0 => AntiOverlapHolds
             /\ AreaHeight = 0 => FinalSize = FittedSize /\ FinalSize >= 18

C10_Witness ==
    /\ Drawn
    /\ AreaHeight > 0
    /\ Len(panel_drawn.out.lines) = 2
    /\ BlockHeight(FittedSize) > AreaHeight
    /\ 14 < FinalSize
    /\ FinalSize < FittedSize

---------------------------------------------------------------------------
(* Properties of the footer *)

FooterAvailableWidth == Max2(0, panel_args.tag_width - 2 * 25200)

FooterWidthAt(size) == measure_text_width(panel_args.footer_text, "Helvetica", size)

FooterFits(size) == FooterWidthAt(size) <= FooterAvailableWidth

FooterSize == panel_drawn.out.footer_size

\* C12: the footer is drawn as one line, centred, at a size in {8, 9, 10}: 10 pt
\* when it fits the available width at 10 pt, otherwise the larger of 9 pt and
\* 8 pt at which it fits, otherwise 8 pt, overflowing; never above 10 pt.
C12_FooterSize ==
    Drawn =>
       /\ FooterSize \in {8, 9, 10}
       /\ FooterFits(10) => FooterSize = 10
       /\ ~FooterFits(10) /\ FooterFits(9) => FooterSize = 9
       /\ ~FooterFits(9) => FooterSize = 8
       /\ FooterSize = 8 => \A size \in 9..14 : ~FooterFits(size)
       /\ ~FooterFits(FooterSize) => FooterSize = 8 /\ ~FooterFits(8)
       /\ panel_drawn.out.footer_x2 = panel_args.tag_width - FooterWidthAt(FooterSize)

C12_Witness ==
    /\ Drawn
    /\ panel_drawn.by = "_draw_panel_content_at_origin"
    /\ Len(panel_args.footer_text) >= 2
    /\ ~FooterFits(10)
    /\ FooterFits(9)
    /\ FooterSize = 9

---------------------------------------------------------------------------
(* Properties of the tent card *)

TentDrawn == panel_drawn # NotDrawn /\ panel_drawn.by = "draw_tent_card"

Strings == panel_drawn.canvas.strings

PanelH == panel_args.tag_height \div 3

\* The strings of one face: the footer, then the name's lines
FaceLen == (Len(Strings) - 1) \div 2

Front(k) == Strings[k]

Back(k) == Strings[FaceLen + k]

\* Lines 309-311, from the footer size the card was drawn with
TentNameAreaHeight ==
    Max2(0, (PanelH - 12960) - (12960 + Front(1).font_size * 1000 + 14400))

\* The page point (doubled) a frame maps the local point (u, v) to
MapsTo(frame, u, v) ==
    <<2 * (frame.a * u + frame.c * v) + frame.e, 2 * (frame.b * u + frame.d * v) + frame.f>>

\* The back face has the front's lines and font sizes, string by string
SameContent ==
    /\ Len(Strings) = 2 * FaceLen + 1
    /\ FaceLen >= 2
    /\ Front(1).text = panel_args.footer_text
    /\ \A k \in 1..FaceLen :
          /\ Back(k).text = Front(k).text
          /\ Back(k).font_name = Front(k).font_name
          /\ Back(k).font_size = Front(k).font_size
          /\ Back(k).u2 = Front(k).u2 /\ Back(k).v2 = Front(k).v2

\* The front is upright on the middle third: local (u, v) is drawn at
\* (x + u, y + h/3 + v), and [0, w] x [0, h/3] is mapped onto the middle third
FrontPlaced ==
    \A k \in 1..FaceLen :
       /\ Front(k).x2 = 2 * panel_args.x + Front(k).u2
       /\ Front(k).y2 = 2 * (panel_args.y + PanelH) + Front(k).v2
       /\ Front(k).dir = <<1, 0>>
       /\ MapsTo(Front(k).frame, 0, 0) = <<2 * panel_args.x, 2 * (panel_args.y + PanelH)>>
       /\ MapsTo(Front(k).frame, panel_args.tag_width, PanelH)
             = <<2 * (panel_args.x + panel_args.tag_width), 2 * (panel_args.y + 2 * PanelH)>>

\* The back is upside down on the top third: local (u, v) is drawn at
\* (x + w - u, y + h - v), and [0, w] x [0, h/3] is mapped onto the top third
BackPlaced ==
    \A k \in 1..FaceLen :
       /\ Back(k).x2 = 2 * (panel_args.x + panel_args.tag_width) - Front(k).u2
       /\ Back(k).y2 = 2 * (panel_args.y + panel_args.tag_height) - Front(k).v2
       /\ Back(k).dir = <<-1, 0>>
       /\ MapsTo(Back(k).frame, 0, 0)
             = <<2 * (panel_args.x + panel_args.tag_width),
                 2 * (panel_args.y + panel_args.tag_height)>>
       /\ MapsTo(Back(k).frame, panel_args.tag_width, PanelH)
             = <<2 * panel_args.x, 2 * (panel_args.y + 2 * PanelH)>>

\* A string rotated by 180 degrees about the centre of the top third
RotatedAboutBackCentre(s) ==
    [x2 |-> 2 * (2 * panel_args.x + panel_args.tag_width) - s.x2,
     y2 |-> 2 * (2 * panel_args.y + 5 * PanelH) - s.y2,
     dir |-> <<-s.dir[1], -s.dir[2]>>]

\* Rotated back, the back face is the front face one third higher
BackIsFrontRotated ==
    \A k \in 1..FaceLen :
       RotatedAboutBackCentre(Back(k))
          = [x2 |-> Front(k).x2, y2 |-> Front(k).y2 + 2 * PanelH, dir |-> Front(k).dir]

IsFlapLabel(s) ==
    s.text = FlapLabel /\ s.font_name = "Helvetica" /\ s.font_size = 9 /\ s.fill = "grey"

\* The baseline of the string starts inside the bottom third of the card
InBottomThird(s) ==
    /\ 2 * panel_args.x <= s.x2 /\ s.x2 <= 2 * (panel_args.x + panel_args.tag_width)
    /\ 2 * panel_args.y <= s.y2 /\ s.y2 < 2 * (panel_args.y + PanelH)

\* The strings drawn in the frame of the bottom third
FlapStrings ==
    {k \in 1..Len(Strings) :
        MapsTo(Strings[k].frame, 0, 0) = <<2 * panel_args.x, 2 * panel_args.y>>}

FlapBlockDrawsOnlyLabel ==
    /\ FlapStrings = {Len(Strings)}
    /\ IsFlapLabel(Strings[Len(Strings)])
    /\ Strings[Len(Strings)].dir = <<1, 0>>

OnlyLabelInBottomThird ==
    \A k \in 1..Len(Strings) : InBottomThird(Strings[k]) => IsFlapLabel(Strings[k])

---------------------------------------------------------------------------
(* Specifications: each runs one part of the program, the others idle *)

FitIdle ==
    /\ fit_args = [text |-> <<>>, max_width |-> 0, max_size |-> 0, min_size |-> 0]
    /\ fit_result = NotCalled

RdIdle ==
    /\ rd_pc = "idle"
    /\ rd_fieldnames = <<>>
    /\ rd_fields = [full_name_field |-> None, email_field |-> None]
    /\ rd_preferred = None
    /\ rd_names = <<>>

MainIdle ==
    /\ args = [tent |-> FALSE]
    /\ pc = "idle"
    /\ preferred_map = None
    /\ names = <<>>
    /\ grid = [rows |-> 0, cols |-> 0]
    /\ idx = 0
    /\ pages = <<>>
    /\ cur_page = {}
    /\ breaks = {}
    /\ placements = {}
    /\ log = <<>>
    /\ exit_status = -1

PanelIdle ==
    /\ panel_args = [tag_width |-> 0, tag_height |-> 0, name_text |-> <<>>,
                     footer_text |-> <<>>]
    /\ panel_drawn = NotDrawn

InitFit == FitInit /\ RdIdle /\ MainIdle /\ PanelIdle

SpecFit == InitFit /\ [][FitNext]_vars

InitCsv == RdInit /\ FitIdle /\ MainIdle /\ PanelIdle

SpecCsv == InitCsv /\ [][RdNext]_vars

InitPanel == PanelInit /\ FitIdle /\ RdIdle /\ MainIdle

SpecPanel == InitPanel /\ [][PanelNext]_vars

InitFooter == FooterInit /\ FitIdle /\ RdIdle /\ MainIdle

SpecFooter == InitFooter /\ [][PanelNext]_vars

InitTent == TentInit /\ FitIdle /\ RdIdle /\ MainIdle

SpecTent == InitTent /\ [][TentNext]_vars

Init == MainInit /\ FitIdle /\ RdIdle /\ PanelIdle

Next == MainNext

Spec == Init /\ [][Next]_vars

====
